---- MODULE Spec2Model ----
(***************************************************************************)
(* State-machine model of the XP / leveling bot in src/bot.py.             *)
(*                                                                         *)
(* The persisted ledger (xp_data.json) is the variable `ledger`; the three *)
(* in-memory maps of the module are variables of the same name.  Every     *)
(* handler is one action per stretch of code between two suspension points *)
(* (awaits) that carry handler-local state: on_message, reset_xp,          *)
(* on_voice_state_update and the query commands load and save without an   *)
(* await in between and are single actions; on_raw_reaction_add and        *)
(* check_voice_xp await send_levelup_message between load_data and         *)
(* save_data and are a begin action plus resume actions, with the local    *)
(* `data` dictionary kept in the task's slot.                              *)
(***************************************************************************)
EXTENDS Integers, Sequences, FiniteSets, TLC

\* ------------------------------------------------------------------------
\* Configuration (DEFAULT_CONFIG)
XP_PER_MESSAGE == 5
XP_PER_REACTION == 5
XP_PER_MINUTE_VC == 2
MESSAGE_COOLDOWN == 10

\* Bounds of the model
MaxEvents == 3
MaxQueryEvents == 3
MaxTime == 10
MaxXp == 450
MaxLevel == 12
MaxRecords == 21
MaxPage == 4

\* The world the bot is connected to: two guilds; guild 1 has two human
\* members and one bot account and two voice channels, guild 2 has one human
\* member (who is also in guild 1) and no voice channel.
Guilds == <<1, 2>>
GuildSet == {Guilds[i] : i \in 1..Len(Guilds)}
Bots == {3}
Members(g) == IF g = 1 THEN {1, 2, 3} ELSE {1}
Users == UNION {Members(g) : g \in GuildSet}
VoiceChannels(g) == IF g = 1 THEN <<10, 11>> ELSE <<>>
ChannelSet(g) == {VoiceChannels(g)[i] : i \in 1..Len(VoiceChannels(g))}

\* Python's None / JSON null
None == "None"
\* before.channel / after.channel of a member in no voice channel (None)
NoChannel == 0
\* str(member)
Name(u) == "user" \o ToString(u)
\* f"{guild.id}_{member.id}"
UserKey(g, u) == ToString(g) \o "_" \o ToString(u)
\* datetime.isoformat() of the clock value t
IsoFormat(t) == "T" \o ToString(t)

\* ------------------------------------------------------------------------
\* Dictionaries
EmptyDict == [k \in {} |-> 0]
Put(d, k, v) == [x \in (DOMAIN d) \cup {k} |-> IF x = k THEN v ELSE d[x]]
Del(d, k) == [x \in (DOMAIN d) \ {k} |-> d[x]]
Get(d, k, default) == IF k \in DOMAIN d THEN d[k] ELSE default

Max(a, b) == IF a >= b THEN a ELSE b
Min(a, b) == IF a <= b THEN a ELSE b

\* ------------------------------------------------------------------------
\* Leveling functions

\* int(math.sqrt(q)) for the rational q = xp / 100: the floor of the root of
\* xp / 100 is the integer root of floor(xp / 100).
ISqrt(n) == CHOOSE r \in 0..n : r * r <= n /\ (r + 1) * (r + 1) > n

calculate_level_NoPlusOne(xp) == ISqrt(xp \div 100)

calculate_level(xp) == ISqrt(xp \div 100) + 1

xp_for_next_level_Linear(level) == level * 100

xp_for_next_level(level) == (level * level) * 100

\* ------------------------------------------------------------------------
\* Records of the ledger

ZeroRecord(username) ==
    [username |-> IF username = None THEN "Unknown" ELSE username,
     xp |-> 0,
     level |-> 1,
     messages |-> 0,
     reactions |-> 0,
     vc_seconds |-> 0,
     vc_partners |-> EmptyDict,
     longest_session |-> 0,
     longest_session_date |-> None]

HasRecord(data, g, u) ==
    /\ ToString(g) \in DOMAIN data
    /\ ToString(u) \in DOMAIN data[ToString(g)]

\* get_user_data mutates `data` and returns data[guild_id][user_id]; here it
\* returns the mutated dictionary, and Rec reads the record out of it.
get_user_data(data, guild_id, user_id, username) ==
    LET gid == ToString(guild_id)
        uid == ToString(user_id)
        d1 == IF gid \notin DOMAIN data THEN Put(data, gid, EmptyDict) ELSE data
    IN  IF uid \notin DOMAIN d1[gid]
        THEN Put(d1, gid, Put(d1[gid], uid, ZeroRecord(username)))
        ELSE IF username # None
             THEN Put(d1, gid, Put(d1[gid], uid, [d1[gid][uid] EXCEPT !.username = username]))
             ELSE d1

Rec(data, g, u) == data[ToString(g)][ToString(u)]

SetRec(data, g, u, r) == Put(data, ToString(g), Put(data[ToString(g)], ToString(u), r))

\* The record a lookup observes: the stored one, or the lazily built zero record.
Lookup(data, g, u) == Rec(get_user_data(data, g, u, None), g, u)

\* ------------------------------------------------------------------------
\* State

VARIABLES
    ledger,                 \* content of DB_FILE (load_data / save_data)
    message_cooldowns,      \* user_key -> time of the last accepted message
    voice_join_times,       \* user_key -> time the member joined voice
    voice_session_starts,   \* user_key -> time the voice session started
    now,                    \* datetime.now(), in seconds
    ready,                  \* on_ready has run (check_voice_xp is started)
    voice,                  \* per guild, the voice states in join order
    react,                  \* the on_raw_reaction_add task in flight
    tick,                   \* the check_voice_xp task
    ev,                     \* what the last handler did (observation)
    session_max,            \* user_key -> longest session completed since the last reset
    accepted_at,            \* <<guild, user>> -> time of the author's last accepted message
    announced,              \* <<guild, user>> -> the levels send_levelup_message announced
                            \*   for the member since the member's last reset, in order
    budget                  \* number of events still to be delivered

vars == <<ledger, message_cooldowns, voice_join_times, voice_session_starts, now,
          ready, voice, react, tick, ev, session_max, accepted_at, announced, budget>>

\* A task slot with no task in it
Idle == [pc |-> "idle"]

\* load_data(): the dictionary read from DB_FILE ({} when the file is absent)
load_data == ledger

\* ------------------------------------------------------------------------
\* XP awards (the mutation each handler applies to its loaded dictionary)

\* on_message, lines 214-219
award_message_NoLevel(data, g, u) ==
    LET d == get_user_data(data, g, u, Name(u))
        r == Rec(d, g, u)
    IN  SetRec(d, g, u, [r EXCEPT !.xp = r.xp + XP_PER_MESSAGE,
                                  !.messages = r.messages + 1])

award_message_Double(data, g, u) ==
    LET d == get_user_data(data, g, u, Name(u))
        r == Rec(d, g, u)
        xp == r.xp + 2 * XP_PER_MESSAGE
    IN  SetRec(d, g, u, [r EXCEPT !.xp = xp,
                                  !.messages = r.messages + 1,
                                  !.level = calculate_level(xp)])

award_message(data, g, u) ==
    LET d == get_user_data(data, g, u, Name(u))
        r == Rec(d, g, u)
        xp == r.xp + XP_PER_MESSAGE
    IN  SetRec(d, g, u, [r EXCEPT !.xp = xp,
                                  !.messages = r.messages + 1,
                                  !.level = calculate_level(xp)])

\* An event is delivered to the connected bot
Deliver ==
    /\ ready
    /\ budget > 0
    /\ budget' = budget - 1

\* ------------------------------------------------------------------------
\* The clock

Advance(d) ==
    /\ now + d <= MaxTime
    /\ now' = now + d
    /\ ev' = [op |-> "advance"]
    /\ UNCHANGED <<ledger, message_cooldowns, voice_join_times, voice_session_starts,
                   ready, voice, react, tick, session_max, accepted_at, announced, budget>>

\* ------------------------------------------------------------------------
\* send_levelup_message(guild, member, level) has been called for each
\* <<guild, member, level>> of ups
Announce(sent, ups) ==
    [k \in DOMAIN sent \cup {<<x[1], x[2]>> : x \in ups} |->
        LET old == IF k \in DOMAIN sent THEN sent[k] ELSE <<>>
            new == {x \in ups : <<x[1], x[2]>> = k}
        IN  IF new = {} THEN old ELSE Append(old, (CHOOSE x \in new : TRUE)[3])]

\* ------------------------------------------------------------------------
\* on_message

\* lines 204-205: the message is inside the author's cooldown window
InCooldown_Inclusive(user_key, current_time) ==
    /\ user_key \in DOMAIN message_cooldowns
    /\ current_time - message_cooldowns[user_key] <= MESSAGE_COOLDOWN

InCooldown(user_key, current_time) ==
    /\ user_key \in DOMAIN message_cooldowns
    /\ current_time - message_cooldowns[user_key] < MESSAGE_COOLDOWN

on_message(g, u) ==
    /\ Deliver
    /\ u \in Members(g)
    /\ UNCHANGED <<voice_join_times, voice_session_starts, now, ready, voice,
                   react, tick, session_max>>
    /\ IF u \in Bots
       THEN /\ ev' = [op |-> "on_message", guild |-> g, user |-> u, outcome |-> "bot",
                      levelups |-> {}]
            /\ UNCHANGED <<ledger, message_cooldowns, accepted_at, announced>>
       ELSE LET user_key == UserKey(g, u)
                current_time == now
            IN  IF InCooldown(user_key, current_time)
                THEN /\ ev' = [op |-> "on_message", guild |-> g, user |-> u,
                               outcome |-> "cooldown", levelups |-> {}]
                     /\ UNCHANGED <<ledger, message_cooldowns, accepted_at, announced>>
                ELSE LET loaded == get_user_data(load_data, g, u, Name(u))
                         old_level == Rec(loaded, g, u).level
                         data == award_message(load_data, g, u)
                         level == Rec(data, g, u).level
                     IN  /\ message_cooldowns' = Put(message_cooldowns, user_key, current_time)
                         /\ ledger' = data
                         /\ accepted_at' = Put(accepted_at, <<g, u>>, current_time)
                         /\ announced' = Announce(announced, IF level > old_level
                                                              THEN {<<g, u, level>>} ELSE {})
                         /\ ev' = [op |-> "on_message", guild |-> g, user |-> u,
                                   outcome |-> "accepted",
                                   levelups |-> IF level > old_level
                                                THEN {<<g, u, level>>} ELSE {}]

\* ------------------------------------------------------------------------
\* Voice state of the guilds (the library's cache) and on_ready

InVoice(g, u) == \E i \in 1..Len(voice[g]) : voice[g][i].id = u

VoiceIndex(g, u) == CHOOSE i \in 1..Len(voice[g]) : voice[g][i].id = u

VoiceState(g, u) == voice[g][VoiceIndex(g, u)]

\* voice_channel.members, in the order of the guild's voice states
ChannelMembers(g, c) == SelectSeq(voice[g], LAMBDA m : m.channel = c)

RECURSIVE SeqToSet(_)
SeqToSet(s) == IF s = <<>> THEN {} ELSE {Head(s)} \cup SeqToSet(Tail(s))

\* Before the bot is connected a member joins a voice channel: no handler runs.
JoinBeforeReady(g, u, c) ==
    /\ ~ready
    /\ budget > 0
    /\ budget' = budget - 1
    /\ u \in Members(g) /\ c \in ChannelSet(g)
    /\ ~InVoice(g, u)
    /\ voice' = [voice EXCEPT ![g] = Append(@, [id |-> u, channel |-> c,
                                                self_mute |-> FALSE, mute |-> FALSE])]
    /\ ev' = [op |-> "join_before_ready"]
    /\ UNCHANGED <<ledger, message_cooldowns, voice_join_times, voice_session_starts,
                   now, ready, react, tick, session_max, accepted_at, announced>>

\* lines 181-187: the user keys on_ready enters into both presence maps
ReadyKeys_WithBots ==
    UNION {{UserKey(g, m.id) : m \in SeqToSet(voice[g])} : g \in GuildSet}

ReadyKeys ==
    UNION {{UserKey(g, m.id) : m \in {x \in SeqToSet(voice[g]) :
                                        /\ x.channel \in ChannelSet(g)
                                        /\ x.id \notin Bots}} : g \in GuildSet}

on_ready ==
    /\ ~ready
    /\ ready' = TRUE
    /\ voice_join_times' = [k \in ReadyKeys |-> now]
    /\ voice_session_starts' = [k \in ReadyKeys |-> now]
    /\ ev' = [op |-> "on_ready"]
    /\ UNCHANGED <<ledger, message_cooldowns, now, voice, react, tick, session_max,
                   accepted_at, announced, budget>>

\* ------------------------------------------------------------------------
\* on_voice_state_update(member, before, after): before and after are the
\* member's channel (NoChannel when in none) around the change.

\* lines 311-317: the file's content after a session of session_duration
\* seconds that ends at time t, given the loaded dictionary
session_end_AlwaysOverwrite(data, g, u, session_duration, t) ==
    LET d == get_user_data(data, g, u, Name(u))
        r == Rec(d, g, u)
    IN  SetRec(d, g, u, [r EXCEPT !.longest_session = session_duration,
                                  !.longest_session_date = IsoFormat(t)])

session_end(data, g, u, session_duration, t) ==
    LET d == get_user_data(data, g, u, Name(u))
        r == Rec(d, g, u)
    IN  IF session_duration > r.longest_session
        THEN SetRec(d, g, u, [r EXCEPT !.longest_session = session_duration,
                                       !.longest_session_date = IsoFormat(t)])
        ELSE data      \* nothing is saved: the file keeps what it held

on_voice_state_update(g, u, before, after) ==
    LET user_key == UserKey(g, u) IN
    IF u \in Bots
    THEN /\ ev' = [op |-> "on_voice_state_update", guild |-> g, user |-> u,
                   outcome |-> "bot", duration |-> 0]
         /\ UNCHANGED <<ledger, voice_join_times, voice_session_starts, session_max>>
    ELSE IF before = NoChannel /\ after # NoChannel
    THEN /\ voice_join_times' = Put(voice_join_times, user_key, now)
         /\ voice_session_starts' = Put(voice_session_starts, user_key, now)
         /\ ev' = [op |-> "on_voice_state_update", guild |-> g, user |-> u,
                   outcome |-> "joined", duration |-> 0]
         /\ UNCHANGED <<ledger, session_max>>
    ELSE IF before # NoChannel /\ after = NoChannel
    THEN /\ voice_join_times' = Del(voice_join_times, user_key)
         /\ voice_session_starts' = Del(voice_session_starts, user_key)
         /\ IF user_key \in DOMAIN voice_session_starts
            THEN LET session_duration == now - voice_session_starts[user_key] IN
                 /\ ledger' = session_end(load_data, g, u, session_duration, now)
                 /\ session_max' = Put(session_max, user_key,
                                       Max(Get(session_max, user_key, 0), session_duration))
                 /\ ev' = [op |-> "on_voice_state_update", guild |-> g, user |-> u,
                           outcome |-> "left", duration |-> session_duration]
            ELSE /\ ev' = [op |-> "on_voice_state_update", guild |-> g, user |-> u,
                           outcome |-> "untracked", duration |-> 0]
                 /\ UNCHANGED <<ledger, session_max>>
    ELSE /\ ev' = [op |-> "on_voice_state_update", guild |-> g, user |-> u,
                   outcome |-> "other", duration |-> 0,
                   from |-> before, to |-> after]
         /\ UNCHANGED <<ledger, voice_join_times, voice_session_starts, session_max>>

VoiceJoin(g, u, c) ==
    /\ Deliver
    /\ u \in Members(g) /\ c \in ChannelSet(g)
    /\ ~InVoice(g, u)
    /\ voice' = [voice EXCEPT ![g] = Append(@, [id |-> u, channel |-> c,
                                                self_mute |-> FALSE, mute |-> FALSE])]
    /\ on_voice_state_update(g, u, NoChannel, c)
    /\ UNCHANGED <<message_cooldowns, now, ready, react, tick, accepted_at, announced>>

VoiceLeave(g, u) ==
    /\ Deliver
    /\ u \in Members(g)
    /\ InVoice(g, u)
    /\ voice' = [voice EXCEPT ![g] = SelectSeq(@, LAMBDA m : m.id # u)]
    /\ on_voice_state_update(g, u, VoiceState(g, u).channel, NoChannel)
    /\ UNCHANGED <<message_cooldowns, now, ready, react, tick, accepted_at, announced>>

VoiceMove(g, u, c) ==
    /\ Deliver
    /\ u \in Members(g) /\ c \in ChannelSet(g)
    /\ InVoice(g, u)
    /\ VoiceState(g, u).channel # c
    /\ voice' = [voice EXCEPT ![g][VoiceIndex(g, u)].channel = c]
    /\ on_voice_state_update(g, u, VoiceState(g, u).channel, c)
    /\ UNCHANGED <<message_cooldowns, now, ready, react, tick, accepted_at, announced>>

\* The member (un)mutes themself, or is (un)muted by the server
VoiceMute(g, u, self) ==
    /\ Deliver
    /\ u \in Members(g)
    /\ InVoice(g, u)
    /\ voice' = IF self
                THEN [voice EXCEPT ![g][VoiceIndex(g, u)].self_mute = ~@]
                ELSE [voice EXCEPT ![g][VoiceIndex(g, u)].mute = ~@]
    /\ on_voice_state_update(g, u, VoiceState(g, u).channel, VoiceState(g, u).channel)
    /\ UNCHANGED <<message_cooldowns, now, ready, react, tick, accepted_at, announced>>

\* ------------------------------------------------------------------------
\* reset_xp (the resetxp command, administrators only)

reset_delete_Guild(data, g, u) == Del(data, ToString(g))

reset_delete(data, g, u) == Put(data, ToString(g), Del(data[ToString(g)], ToString(u)))

reset_xp(g, u) ==
    /\ Deliver
    /\ u \in Members(g)
    /\ IF HasRecord(load_data, g, u)
       THEN /\ ledger' = reset_delete(load_data, g, u)
            /\ session_max' = Del(session_max, UserKey(g, u))
            /\ announced' = Del(announced, <<g, u>>)
            /\ ev' = [op |-> "reset_xp", guild |-> g, user |-> u, outcome |-> "reset",
                      saved |-> TRUE]
       ELSE /\ ev' = [op |-> "reset_xp", guild |-> g, user |-> u, outcome |-> "no_data",
                      saved |-> FALSE]
            /\ UNCHANGED <<ledger, session_max, announced>>
    /\ UNCHANGED <<message_cooldowns, voice_join_times, voice_session_starts, now,
                   ready, voice, react, tick, accepted_at>>

\* ------------------------------------------------------------------------
\* on_raw_reaction_add

\* lines 264-269: the reacting user's award
award_reactor_NoCount(data, g, u) ==
    LET d == get_user_data(data, g, u, Name(u))
        r == Rec(d, g, u)
        xp == r.xp + XP_PER_REACTION
    IN  SetRec(d, g, u, [r EXCEPT !.xp = xp, !.level = calculate_level(xp)])

award_reactor(data, g, u) ==
    LET d == get_user_data(data, g, u, Name(u))
        r == Rec(d, g, u)
        xp == r.xp + XP_PER_REACTION
    IN  SetRec(d, g, u, [r EXCEPT !.xp = xp,
                                  !.reactions = r.reactions + 1,
                                  !.level = calculate_level(xp)])

\* line 276: the message author is awarded too
author_awarded_SelfToo(u, a) == a \notin Bots

author_awarded_BotsToo(u, a) == a # u

author_awarded(u, a) == a \notin Bots /\ a # u

\* lines 277-281: the message author's award
award_author(data, g, a) ==
    LET d == get_user_data(data, g, a, Name(a))
        r == Rec(d, g, a)
        xp == r.xp + XP_PER_REACTION
    IN  SetRec(d, g, a, [r EXCEPT !.xp = xp, !.level = calculate_level(xp)])

\* line 287: save_data(data), the handler is over
ReactionSave(t) ==
    /\ ledger' = t.data
    /\ react' = Idle
    /\ ev' = [op |-> "on_raw_reaction_add", guild |-> t.guild, user |-> t.user,
              author |-> t.author, outcome |-> "saved", loaded |-> t.loaded,
              levelups |-> t.levelups]
    /\ UNCHANGED announced

ReactionSuspend(t, pc, up) ==
    /\ react' = [t EXCEPT !.pc = pc, !.levelups = @ \cup {up}]
    /\ ev' = [op |-> "on_raw_reaction_add", guild |-> t.guild, user |-> t.user,
              author |-> t.author, outcome |-> "suspended", loaded |-> t.loaded,
              levelups |-> {up}]
    /\ announced' = Announce(announced, {up})
    /\ UNCHANGED ledger

\* lines 275-287
ReactionAuthorPart(t) ==
    IF author_awarded(t.user, t.author)
    THEN LET old_author_level ==
                 Rec(get_user_data(t.data, t.guild, t.author, Name(t.author)),
                     t.guild, t.author).level
             data == award_author(t.data, t.guild, t.author)
             level == Rec(data, t.guild, t.author).level
             t1 == [t EXCEPT !.data = data]
         IN  IF level > old_author_level
             THEN ReactionSuspend(t1, "await_author", <<t.guild, t.author, level>>)
             ELSE ReactionSave(t1)
    ELSE ReactionSave(t)

\* payload of user u's reaction to a message of author a; fetched is whether
\* channel.fetch_message returned the message
on_raw_reaction_add(g, u, a, fetched) ==
    /\ Deliver
    /\ react.pc = "idle"
    /\ u \in Members(g) /\ a \in Members(g)
    /\ UNCHANGED <<message_cooldowns, voice_join_times, voice_session_starts, now,
                   ready, voice, tick, session_max, accepted_at>>
    /\ IF u \in Bots \/ ~fetched
       THEN /\ ev' = [op |-> "on_raw_reaction_add", guild |-> g, user |-> u,
                      outcome |-> IF u \in Bots THEN "bot" ELSE "fetch_failed",
                      levelups |-> {}]
            /\ UNCHANGED <<ledger, react, announced>>
       ELSE LET loaded == load_data
                old_level == Rec(get_user_data(loaded, g, u, Name(u)), g, u).level
                data == award_reactor(loaded, g, u)
                level == Rec(data, g, u).level
                t == [pc |-> "run", data |-> data, loaded |-> loaded, guild |-> g,
                      user |-> u, author |-> a, levelups |-> {}]
            IN  IF level > old_level
                THEN ReactionSuspend(t, "await_user", <<g, u, level>>)
                ELSE ReactionAuthorPart(t)

\* send_levelup_message returns and the handler goes on
on_raw_reaction_add_resume ==
    /\ react.pc \in {"await_user", "await_author"}
    /\ IF react.pc = "await_user" THEN ReactionAuthorPart(react) ELSE ReactionSave(react)
    /\ UNCHANGED <<message_cooldowns, voice_join_times, voice_session_starts, now,
                   ready, voice, tick, session_max, accepted_at, budget>>

\* ------------------------------------------------------------------------
\* check_voice_xp (tasks.loop: one run at a time)

RECURSIVE Ids(_)
Ids(ms) == IF ms = <<>> THEN <<>> ELSE <<Head(ms).id>> \o Ids(Tail(ms))

\* lines 334-335: the members of the channel that count, in order
non_bot_members_MutedCount(g, c) ==
    Ids(SelectSeq(ChannelMembers(g, c), LAMBDA m : m.id \notin Bots))

non_bot_members(g, c) ==
    Ids(SelectSeq(ChannelMembers(g, c),
                  LAMBDA m : m.id \notin Bots /\ ~m.self_mute /\ ~m.mute))

\* line 338: the channel is skipped
skip_channel_SoloCounts(members) == Len(members) < 1

skip_channel(members) == Len(members) <= 1

\* lines 353-362: the partner entries of one member after the tick
RECURSIVE add_partners(_, _, _)
add_partners(vc_partners, member, partners) ==
    IF partners = <<>> THEN vc_partners
    ELSE LET partner == Head(partners)
             partner_id == ToString(partner)
             entry == Get(vc_partners, partner_id, [username |-> Name(partner), seconds |-> 0])
         IN  IF partner # member
             THEN add_partners(Put(vc_partners, partner_id,
                                   [username |-> Name(partner),
                                    seconds |-> entry.seconds + 60]),
                               member, Tail(partners))
             ELSE add_partners(vc_partners, member, Tail(partners))

\* lines 345-362: one member's award on a tick
award_voice_NoPartners(data, g, member, members) ==
    LET d == get_user_data(data, g, member, Name(member))
        r == Rec(d, g, member)
        xp == r.xp + XP_PER_MINUTE_VC
    IN  SetRec(d, g, member, [r EXCEPT !.xp = xp,
                                       !.vc_seconds = r.vc_seconds + 60,
                                       !.level = calculate_level(xp)])

award_voice(data, g, member, members) ==
    LET d == get_user_data(data, g, member, Name(member))
        r == Rec(d, g, member)
        xp == r.xp + XP_PER_MINUTE_VC
    IN  SetRec(d, g, member, [r EXCEPT !.xp = xp,
                                       !.vc_seconds = r.vc_seconds + 60,
                                       !.level = calculate_level(xp),
                                       !.vc_partners = add_partners(r.vc_partners, member, members)])

\* The loop of lines 331-366 from the place t stands at, up to the next
\* await of send_levelup_message (pc "await") or to its end (pc "done").
\*   t.guilds   guilds not entered yet
\*   t.chans    channels of guild t.guild not entered yet
\*   t.members  members of channel t.channel not handled yet
\*   t.snapshot non_bot_members of channel t.channel, as computed on entry
\*   t.visits   the channels entered so far, with what was found there
\*   t.credited the <<guild, channel, member>> awarded so far, in order
RECURSIVE RunTick(_)
RunTick(t) ==
    IF t.members # <<>>
    THEN LET member == Head(t.members)
             rest == [t EXCEPT !.members = Tail(t.members)]
         IN  IF UserKey(t.guild, member) \in DOMAIN voice_join_times
             THEN LET old_level == Rec(get_user_data(t.data, t.guild, member, Name(member)),
                                       t.guild, member).level
                      data == award_voice(t.data, t.guild, member, t.snapshot)
                      level == Rec(data, t.guild, member).level
                      t1 == [rest EXCEPT !.data = data,
                                         !.credited = Append(@, <<t.guild, t.channel, member>>)]
                  IN  IF level > old_level
                      THEN [t1 EXCEPT !.pc = "await",
                                      !.levelups = @ \cup {<<t.guild, member, level>>}]
                      ELSE RunTick(t1)
             ELSE RunTick(rest)
    ELSE IF t.chans # <<>>
    THEN LET c == Head(t.chans)
             members == non_bot_members(t.guild, c)
             t1 == [t EXCEPT !.chans = Tail(t.chans),
                             !.visits = Append(@, [guild |-> t.guild, channel |-> c,
                                                   occupants |-> ChannelMembers(t.guild, c),
                                                   members |-> members])]
         IN  IF skip_channel(members)
             THEN RunTick(t1)
             ELSE RunTick([t1 EXCEPT !.channel = c, !.members = members,
                                     !.snapshot = members])
    ELSE IF t.guilds # <<>>
    THEN RunTick([t EXCEPT !.guild = Head(t.guilds), !.guilds = Tail(t.guilds),
                           !.chans = VoiceChannels(Head(t.guilds))])
    ELSE [t EXCEPT !.pc = "done"]

TickStep(t) ==
    LET t1 == RunTick(t) IN
    IF t1.pc = "await"
    THEN /\ tick' = t1
         /\ ev' = [op |-> "check_voice_xp", outcome |-> "suspended", loaded |-> t1.loaded,
                   visits |-> t1.visits, credited |-> t1.credited,
                   levelups |-> t1.levelups \ t.levelups]
         /\ announced' = Announce(announced, t1.levelups \ t.levelups)
         /\ UNCHANGED ledger
    ELSE /\ ledger' = t1.data          \* line 368: save_data(data)
         /\ tick' = Idle
         /\ ev' = [op |-> "check_voice_xp", outcome |-> "saved", loaded |-> t1.loaded,
                   visits |-> t1.visits, credited |-> t1.credited,
                   levelups |-> t1.levelups \ t.levelups]
         /\ announced' = Announce(announced, t1.levelups \ t.levelups)

\* The loop's timer fires
check_voice_xp ==
    /\ Deliver
    /\ tick.pc = "idle"
    /\ TickStep([pc |-> "run", data |-> load_data, loaded |-> load_data,
                 guilds |-> Guilds, guild |-> 0, chans |-> <<>>, channel |-> 0,
                 members |-> <<>>, snapshot |-> <<>>, visits |-> <<>>,
                 credited |-> <<>>, levelups |-> {}])
    /\ UNCHANGED <<message_cooldowns, voice_join_times, voice_session_starts, now,
                   ready, voice, react, session_max, accepted_at>>

\* send_levelup_message returns and the loop goes on
check_voice_xp_resume ==
    /\ tick.pc = "await"
    /\ TickStep(tick)
    /\ UNCHANGED <<message_cooldowns, voice_join_times, voice_session_starts, now,
                   ready, voice, react, session_max, accepted_at, budget>>

\* ------------------------------------------------------------------------
\* Initial states: the bot starts with empty in-memory maps and with the
\* ledger file it finds.  The file is absent, or it is the file an earlier
\* run left in which, in guild 1, member 1 had SeedMessages messages accepted
\* and sat through SeedTicks voice ticks together with member 2 (which leaves
\* member 1 one XP short of level 2), and ended a voice session of
\* SeedSession seconds.

SeedMessages == (xp_for_next_level(1) \div XP_PER_MESSAGE) - 1
SeedTicks == (xp_for_next_level(1) - 1 - SeedMessages * XP_PER_MESSAGE) \div XP_PER_MINUTE_VC
SeedSession == MESSAGE_COOLDOWN - 1

RECURSIVE AfterMessages(_, _, _, _)
AfterMessages(data, g, u, n) ==
    IF n = 0 THEN data ELSE AfterMessages(award_message(data, g, u), g, u, n - 1)

RECURSIVE AfterTicks(_, _, _, _)
AfterTicks(data, g, members, n) ==
    IF n = 0 THEN data
    ELSE AfterTicks(award_voice(award_voice(data, g, members[1], members), g, members[2], members),
                    g, members, n - 1)

SeedLedger ==
    session_end(AfterTicks(AfterMessages(EmptyDict, 1, 1, SeedMessages), 1, <<1, 2>>, SeedTicks),
                1, 1, SeedSession, 0 - SeedSession)

\* The voice channels when the bot starts: empty, or with the two members of
\* guild 1 together in its first channel
SeedVoice ==
    [g \in GuildSet |->
        IF g = Guilds[1]
        THEN [i \in 1..2 |-> [id |-> i, channel |-> VoiceChannels(g)[1],
                              self_mute |-> FALSE, mute |-> FALSE]]
        ELSE <<>>]

InitWith(events) ==
    /\ ledger \in {EmptyDict, SeedLedger}
    /\ message_cooldowns = EmptyDict
    /\ voice_join_times = EmptyDict
    /\ voice_session_starts = EmptyDict
    /\ now = 0
    /\ ready = FALSE
    /\ voice \in {[g \in GuildSet |-> <<>>], SeedVoice}
    /\ react = Idle
    /\ tick = Idle
    /\ ev = [op |-> "init"]
    /\ session_max = IF ledger = EmptyDict THEN EmptyDict
                     ELSE Put(EmptyDict, UserKey(1, 1), SeedSession)
    /\ accepted_at = EmptyDict
    /\ announced = EmptyDict
    /\ budget = events

Init == InitWith(MaxEvents)

\* ------------------------------------------------------------------------
\* The system

AdvanceSteps == {MESSAGE_COOLDOWN - 1, MESSAGE_COOLDOWN}

Next ==
    \/ \E d \in AdvanceSteps : Advance(d)
    \/ \E g \in GuildSet : \E u \in Users, c \in ChannelSet(g) : JoinBeforeReady(g, u, c)
    \/ on_ready
    \/ \E g \in GuildSet, u \in Users : on_message(g, u)
    \/ \E g \in GuildSet, u \in Users, a \in Users, fetched \in BOOLEAN :
          on_raw_reaction_add(g, u, a, fetched)
    \/ on_raw_reaction_add_resume
    \/ \E g \in GuildSet : \E u \in Users, c \in ChannelSet(g) : VoiceJoin(g, u, c)
    \/ \E g \in GuildSet, u \in Users : VoiceLeave(g, u)
    \/ \E g \in GuildSet : \E u \in Users, c \in ChannelSet(g) : VoiceMove(g, u, c)
    \/ \E g \in GuildSet, u \in Users, self \in BOOLEAN : VoiceMute(g, u, self)
    \/ check_voice_xp
    \/ check_voice_xp_resume
    \/ \E g \in GuildSet, u \in Users : reset_xp(g, u)

Spec == Init /\ [][Next]_vars

\* ------------------------------------------------------------------------
\* The query commands: rank, vcpartners, leaderboard.  The dictionaries of
\* the model do not keep Python's insertion order, which is what orders the
\* entries that sorted() finds equal: the order among equal entries is any.

\* All orderings of the keys of d in which key(d[k]) never increases
SortedOrders(keys) ==
    LET n == Cardinality(DOMAIN keys) IN
    {s \in [1..n -> DOMAIN keys] :
        /\ \A i, j \in 1..n : i # j => s[i] # s[j]
        /\ \A i \in 1..(n - 1) : keys[s[i]] >= keys[s[i + 1]]}

XpOf(r) == r.xp

\* lines 376-382: the positions rank can report for the member.  A record
\* built by get_user_data for the occasion is the last of the dictionary.
rank_positions_FromLedger(data, g, u) ==
    IF HasRecord(data, g, u)
    THEN {i \in 1..Cardinality(DOMAIN data[ToString(g)]) :
            \E s \in SortedOrders([k \in DOMAIN data[ToString(g)] |-> XpOf(data[ToString(g)][k])]) : s[i] = ToString(u)}
    ELSE {0}

rank_positions(data, g, u) ==
    LET d == get_user_data(data, g, u, None)
        guild_data == d[ToString(g)]
        n == Cardinality(DOMAIN guild_data)
    IN  {i \in 1..n :
            \E s \in SortedOrders([k \in DOMAIN guild_data |-> XpOf(guild_data[k])]) :
                /\ s[i] = ToString(u)
                /\ ~HasRecord(data, g, u) =>
                      \A j \in (i + 1)..n : guild_data[s[j]].xp < guild_data[s[i]].xp}
        \cup (IF ToString(u) \in DOMAIN guild_data THEN {} ELSE {0})

\* lines 376-409: what the file holds after rank, given what it held.  The
\* record get_user_data builds is in the loaded dictionary only: rank does
\* not call save_data.
rank_persisted_Saved(data, g, u) == get_user_data(data, g, u, None)

rank_persisted(data, g, u) == data

rank(g, u) ==
    /\ Deliver
    /\ u \in Members(g)
    /\ \E position \in rank_positions(load_data, g, u) :
          ev' = [op |-> "rank", guild |-> g, user |-> u, rank |-> position,
                 stats |-> Lookup(load_data, g, u)]
    /\ ledger' = rank_persisted(load_data, g, u)
    /\ UNCHANGED <<message_cooldowns, voice_join_times, voice_session_starts,
                   now, ready, voice, react, tick, session_max, accepted_at, announced>>

SecondsOf(e) == e.seconds

\* lines 417-465
vc_partners(g, u) ==
    /\ Deliver
    /\ u \in Members(g)
    /\ LET partners == Lookup(load_data, g, u).vc_partners IN
       IF partners = EmptyDict
       THEN ev' = [op |-> "vcpartners", guild |-> g, user |-> u, outcome |-> "none",
                   entries |-> <<>>]
       ELSE \E s \in SortedOrders([k \in DOMAIN partners |-> SecondsOf(partners[k])]) :
               ev' = [op |-> "vcpartners", guild |-> g, user |-> u, outcome |-> "partners",
                      entries |-> [i \in 1..Min(10, Len(s)) |-> <<i, s[i], partners[s[i]].seconds>>]]
    /\ UNCHANGED <<ledger, message_cooldowns, voice_join_times, voice_session_starts,
                   now, ready, voice, react, tick, session_max, accepted_at, announced>>

\* str.lower() on the category names the model sends
Lower(category) ==
    IF category = "XP" THEN "xp"
    ELSE IF category = "VC" THEN "vc"
    ELSE IF category = "Bogus" THEN "bogus"
    ELSE category

\* lines 485-495: valid_categories, category -> sort key
valid_categories ==
    [c \in {"xp", "level", "messages", "reactions", "vc", "vctime", "voice",
            "session", "longest"} |->
        IF c \in {"vc", "vctime", "voice"} THEN "vc_seconds"
        ELSE IF c \in {"session", "longest"} THEN "longest_session"
        ELSE c]

\* x[1].get(sort_key, 0): a record written before the field existed has none
Field(r, sort_key) == IF sort_key \in DOMAIN r THEN r[sort_key] ELSE 0

\* lines 479-481 and 497-499: what leaderboard answers before it sorts
leaderboard_early_ValidateFirst(guild_data, category) ==
    IF Lower(category) \notin DOMAIN valid_categories THEN "invalid_category"
    ELSE IF guild_data = EmptyDict THEN "no_data"
    ELSE "page"

leaderboard_early(guild_data, category) ==
    IF guild_data = EmptyDict THEN "no_data"
    ELSE IF Lower(category) \notin DOMAIN valid_categories THEN "invalid_category"
    ELSE "page"

\* lines 507-509
per_page == 10
total_pages(n) == (n + per_page - 1) \div per_page
clamp_page_NoLowerBound(page, n) == Min(page, total_pages(n))
clamp_page(page, n) == Max(1, Min(page, total_pages(n)))

\* guild_data.items(): the <<user id, record>> pairs in the order of the
\* dictionary, which is the order the records were first written in; the
\* model keeps no such order for the ledger, so every order is possible
ItemOrders(guild_data) ==
    LET n == Cardinality(DOMAIN guild_data) IN
    {[i \in 1..n |-> <<s[i], guild_data[s[i]]>>] :
        s \in {t \in [1..n -> DOMAIN guild_data] :
                  \A i, j \in 1..n : i # j => t[i] # t[j]}}

\* line 504: sorted(items, key = the field, reverse=True); the sort is
\* stable, so items with equal keys keep the order of the dictionary
RECURSIVE InsertItem(_, _, _)
InsertItem(sorted, item, sort_key) ==
    IF sorted = <<>> THEN <<item>>
    ELSE IF Field(Head(sorted)[2], sort_key) >= Field(item[2], sort_key)
    THEN <<Head(sorted)>> \o InsertItem(Tail(sorted), item, sort_key)
    ELSE <<item>> \o sorted

RECURSIVE sorted_users(_, _)
sorted_users(items, sort_key) ==
    IF items = <<>> THEN <<>>
    ELSE InsertItem(sorted_users(SubSeq(items, 1, Len(items) - 1), sort_key),
                    items[Len(items)], sort_key)

\* lines 504-520: the page shown, the number of pages and the entries
\* <<position, user id, value of the field, level>> of the page
leaderboard_page(items, sort_key, page) ==
    LET sorted == sorted_users(items, sort_key)
        n == Len(sorted)
        shown == clamp_page(page, n)
        start_idx == (shown - 1) * per_page
        end_idx == start_idx + per_page
        slice == SubSeq(sorted, Max(start_idx, 0) + 1, Min(Max(end_idx, 0), n))
    IN  [shown |-> shown,
         pages |-> total_pages(n),
         entries |-> [i \in 1..Len(slice) |->
                        <<start_idx + i, slice[i][1], Field(slice[i][2], sort_key),
                          slice[i][2].level>>]]

leaderboard(g, category, page) ==
    /\ Deliver
    /\ LET guild_data == Get(load_data, ToString(g), EmptyDict)
           outcome == leaderboard_early(guild_data, category)
       IN  IF outcome # "page"
           THEN ev' = [op |-> "leaderboard", guild |-> g, category |-> category,
                       page |-> page, outcome |-> outcome, shown |-> 0, pages |-> 0,
                       entries |-> <<>>]
           ELSE \E items \in ItemOrders(guild_data) :
                   LET shown == leaderboard_page(items, valid_categories[Lower(category)],
                                                 page)
                   IN  ev' = [op |-> "leaderboard", guild |-> g, category |-> category,
                              page |-> page, outcome |-> outcome, shown |-> shown.shown,
                              pages |-> shown.pages, entries |-> shown.entries]
    /\ UNCHANGED <<ledger, message_cooldowns, voice_join_times, voice_session_starts,
                   now, ready, voice, react, tick, session_max, accepted_at, announced>>

\* The categories and pages the model sends
Categories == {"xp", "VC", "session", "Bogus"}
Pages == {0, 2}

\* The chat events and the queries
NextQuery ==
    \/ on_ready
    \/ \E g \in GuildSet, u \in Users : on_message(g, u)
    \/ \E g \in GuildSet, u \in Users, a \in Users, fetched \in BOOLEAN :
          on_raw_reaction_add(g, u, a, fetched)
    \/ on_raw_reaction_add_resume
    \/ \E g \in GuildSet, u \in Users : reset_xp(g, u)
    \/ \E g \in GuildSet, u \in Users : rank(g, u)
    \/ \E g \in GuildSet, u \in Users : vc_partners(g, u)
    \/ \E g \in GuildSet, category \in Categories, page \in Pages :
          leaderboard(g, category, page)

InitQuery == InitWith(MaxQueryEvents) /\ voice = [g \in GuildSet |-> <<>>]

SpecQuery == InitQuery /\ [][NextQuery]_vars

\* ------------------------------------------------------------------------
\* The leveling formulas and the leaderboard's paging on their own, applied
\* to inputs drawn from bounded sets

\* calculate_level(xp)
CalculateLevel(xp) ==
    /\ ev.op \in {"init", "calculate_level"}
    /\ ev' = [op |-> "calculate_level", xp |-> xp, level |-> calculate_level(xp)]
    /\ UNCHANGED <<ledger, message_cooldowns, voice_join_times, voice_session_starts,
                   now, ready, voice, react, tick, session_max, accepted_at, announced, budget>>

\* xp_for_next_level(level), and calculate_level just below and at that xp
LevelBoundary(level) ==
    /\ ev.op \in {"init", "xp_for_next_level"}
    /\ ev' = [op |-> "xp_for_next_level", level |-> level,
              xp |-> xp_for_next_level(level),
              below |-> calculate_level(xp_for_next_level(level) - 1),
              at |-> calculate_level(xp_for_next_level(level))]
    /\ UNCHANGED <<ledger, message_cooldowns, voice_join_times, voice_session_starts,
                   now, ready, voice, react, tick, session_max, accepted_at, announced, budget>>

\* The i-th of n records of a server, first written in this order.  The
\* members earned their xp by messages alone; the records of the members
\* with an odd id were last written before longest_session existed and have
\* neither that field nor its date.
SamplePatterns == {"rising", "falling", "mixed"}

SampleXp(pattern, n, i) ==
    IF pattern = "rising" THEN XP_PER_MESSAGE * i
    ELSE IF pattern = "falling" THEN XP_PER_MESSAGE * (n - i)
    ELSE xp_for_next_level(1) * ((i * 7) % 3)

SampleRecord(pattern, n, i) ==
    LET xp == SampleXp(pattern, n, i)
        session == (i % 4) * SeedSession
        r == [ZeroRecord(Name(i)) EXCEPT
                 !.xp = xp,
                 !.level = calculate_level(xp),
                 !.messages = xp \div XP_PER_MESSAGE,
                 !.longest_session = session,
                 !.longest_session_date = IF session > 0 THEN IsoFormat(0) ELSE None]
    IN  IF i % 2 = 1
        THEN [f \in DOMAIN r \ {"longest_session", "longest_session_date"} |-> r[f]]
        ELSE r

SampleItems(n, pattern) == [i \in 1..n |-> <<ToString(i), SampleRecord(pattern, n, i)>>]

PageCategories == {"xp", "session"}

\* lines 501-520 on a server with n records
LeaderboardPage(n, pattern, category, page) ==
    /\ ev.op = "init"
    /\ LET shown == leaderboard_page(SampleItems(n, pattern),
                                     valid_categories[Lower(category)], page)
       IN  ev' = [op |-> "leaderboard_page", n |-> n, pattern |-> pattern,
                  category |-> category, page |-> page, shown |-> shown.shown,
                  pages |-> shown.pages, entries |-> shown.entries]
    /\ UNCHANGED <<ledger, message_cooldowns, voice_join_times, voice_session_starts,
                   now, ready, voice, react, tick, session_max, accepted_at, announced, budget>>

NextCalc ==
    \/ \E xp \in 0..MaxXp : CalculateLevel(xp)
    \/ \E level \in 1..MaxLevel : LevelBoundary(level)
    \/ \E n \in 1..MaxRecords, pattern \in SamplePatterns, category \in PageCategories,
          page \in (-1)..MaxPage : LeaderboardPage(n, pattern, category, page)

InitCalc == InitWith(0) /\ ledger = EmptyDict

SpecCalc == InitCalc /\ [][NextCalc]_vars

\* ------------------------------------------------------------------------
\* Properties

\* The records the file holds, as <<guild, user>> over the model's ids
Stored(data) == {p \in GuildSet \X Users : HasRecord(data, p[1], p[2])}

\* A counter of the record of <<g, u>>: 0 when there is no record
XpIn(data, g, u) == IF HasRecord(data, g, u) THEN Rec(data, g, u).xp ELSE 0
MessagesIn(data, g, u) == IF HasRecord(data, g, u) THEN Rec(data, g, u).messages ELSE 0
ReactionsIn(data, g, u) == IF HasRecord(data, g, u) THEN Rec(data, g, u).reactions ELSE 0
VcSecondsIn(data, g, u) == IF HasRecord(data, g, u) THEN Rec(data, g, u).vc_seconds ELSE 0
PartnersIn(data, g, u) == IF HasRecord(data, g, u) THEN Rec(data, g, u).vc_partners ELSE EmptyDict
PartnerSecondsIn(data, g, u, p) ==
    IF ToString(p) \in DOMAIN PartnersIn(data, g, u)
    THEN PartnersIn(data, g, u)[ToString(p)].seconds ELSE 0
LongestIn(data, g, u) == IF HasRecord(data, g, u) THEN Rec(data, g, u).longest_session ELSE 0

\* level = floor(sqrt(xp / 100)) + 1, said without the code's function:
\* level - 1 is the k with 100 k^2 <= xp < 100 (k + 1)^2
LevelIs(xp, level) ==
    /\ level >= 1
    /\ 100 * (level - 1) * (level - 1) <= xp
    /\ xp < 100 * level * level

\* C1: in every reachable state of the persisted ledger every stored record
\* has level = floor(sqrt(xp / 100)) + 1.
C1_LevelMatchesXp ==
    \A gid \in DOMAIN ledger : \A uid \in DOMAIN ledger[gid] :
        LevelIs(ledger[gid][uid].xp, ledger[gid][uid].level)

\* C1 witness: a handler of this run has stored a record above level 1 (the
\* file found at start holds none).
C1_Witness ==
    \E gid \in DOMAIN ledger : \E uid \in DOMAIN ledger[gid] : ledger[gid][uid].level = 2

\* The step is reset_xp deleting the record of <<g, u>>
IsResetOf(g, u) ==
    /\ ev'.op = "reset_xp"
    /\ ev'.outcome = "reset"
    /\ ev'.guild = g /\ ev'.user = u

NonNegative(data) ==
    \A p \in Stored(data) :
        /\ XpIn(data, p[1], p[2]) >= 0
        /\ MessagesIn(data, p[1], p[2]) >= 0
        /\ ReactionsIn(data, p[1], p[2]) >= 0
        /\ VcSecondsIn(data, p[1], p[2]) >= 0
        /\ \A q \in Users : PartnerSecondsIn(data, p[1], p[2], q) >= 0

NoDecrease(g, u) ==
    /\ XpIn(ledger', g, u) >= XpIn(ledger, g, u)
    /\ MessagesIn(ledger', g, u) >= MessagesIn(ledger, g, u)
    /\ ReactionsIn(ledger', g, u) >= ReactionsIn(ledger, g, u)
    /\ VcSecondsIn(ledger', g, u) >= VcSecondsIn(ledger, g, u)
    /\ \A q \in Users : PartnerSecondsIn(ledger', g, u, q) >= PartnerSecondsIn(ledger, g, u, q)

\* C2: the persisted xp, messages, reactions, vc_seconds and partner seconds
\* of every <<server, user>> are never negative and, over every step of every
\* execution (handlers suspended between load_data and save_data included),
\* never decrease, unless the step is reset_xp for that user.
C2_NeverDecreases ==
    [][/\ NonNegative(ledger')
       /\ \A g \in GuildSet, u \in Users : IsResetOf(g, u) \/ NoDecrease(g, u)]_vars

\* Every record but that of <<g, u>> is as it was
OthersUnchanged(before, after, g, u) ==
    \A p \in (GuildSet \X Users) \ {<<g, u>>} :
        /\ HasRecord(after, p[1], p[2]) <=> HasRecord(before, p[1], p[2])
        /\ HasRecord(before, p[1], p[2]) => Rec(after, p[1], p[2]) = Rec(before, p[1], p[2])

\* The step is a run of on_message for a message of u in g
IsMessageOf(g, u) ==
    /\ ev'.op = "on_message"
    /\ ev'.guild = g /\ ev'.user = u

\* C3: an accepted message of a non-bot author (no accepted message before,
\* or the last one at least message_cooldown seconds ago) adds exactly
\* XP_PER_MESSAGE to the author's xp and 1 to messages, recomputes level,
\* starts from the zero record when there is none, and leaves every other
\* record and the author's reactions, vc_seconds, vc_partners and
\* longest_session as they were; a message of a bot changes neither the
\* ledger nor the cooldown map.
C3_MessageAward ==
    [][\A g \in GuildSet, u \in Users : IsMessageOf(g, u) =>
          IF u \in Bots
          THEN /\ ev'.outcome = "bot"
               /\ ledger' = ledger
               /\ message_cooldowns' = message_cooldowns
          ELSE ev'.outcome = "accepted" =>
               /\ \/ <<g, u>> \notin DOMAIN accepted_at
                  \/ now - accepted_at[<<g, u>>] >= MESSAGE_COOLDOWN
               /\ HasRecord(ledger', g, u)
               /\ XpIn(ledger', g, u) = XpIn(ledger, g, u) + XP_PER_MESSAGE
               /\ MessagesIn(ledger', g, u) = MessagesIn(ledger, g, u) + 1
               /\ LevelIs(Rec(ledger', g, u).xp, Rec(ledger', g, u).level)
               /\ Rec(ledger', g, u).reactions = Lookup(ledger, g, u).reactions
               /\ Rec(ledger', g, u).vc_seconds = Lookup(ledger, g, u).vc_seconds
               /\ Rec(ledger', g, u).vc_partners = Lookup(ledger, g, u).vc_partners
               /\ Rec(ledger', g, u).longest_session = Lookup(ledger, g, u).longest_session
               /\ Rec(ledger', g, u).longest_session_date
                     = Lookup(ledger, g, u).longest_session_date
               /\ OthersUnchanged(ledger, ledger', g, u)]_vars

\* C3 witness: a message was accepted from an author who had no record, so
\* the record was built from the zero state.
C3_Witness ==
    /\ ev.op = "on_message"
    /\ ev.outcome = "accepted"
    /\ HasRecord(ledger, ev.guild, ev.user)
    /\ Rec(ledger, ev.guild, ev.user).messages = 1
    /\ Rec(ledger, ev.guild, ev.user).xp = XP_PER_MESSAGE

\* C4: a message less than message_cooldown seconds after the author's last
\* accepted message in that server is discarded and changes neither the
\* ledger nor the stored cooldown time; one at message_cooldown seconds or
\* more is accepted; accepted messages of one <<server, author>> are at
\* least message_cooldown apart; the author's cooldown in another server does
\* not count.
C4_Cooldown ==
    [][\A g \in GuildSet, u \in Users \ Bots : IsMessageOf(g, u) =>
          IF <<g, u>> \in DOMAIN accepted_at
             /\ now - accepted_at[<<g, u>>] < MESSAGE_COOLDOWN
          THEN /\ ev'.outcome = "cooldown"
               /\ ledger' = ledger
               /\ message_cooldowns' = message_cooldowns
               /\ accepted_at' = accepted_at
          ELSE /\ ev'.outcome = "accepted"
               /\ accepted_at'[<<g, u>>] = now
               /\ <<g, u>> \in DOMAIN accepted_at =>
                     accepted_at'[<<g, u>>] - accepted_at[<<g, u>>] >= MESSAGE_COOLDOWN
               /\ \A h \in GuildSet \ {g} :
                     /\ <<h, u>> \in DOMAIN accepted_at' <=> <<h, u>> \in DOMAIN accepted_at
                     /\ <<h, u>> \in DOMAIN accepted_at =>
                           accepted_at'[<<h, u>>] = accepted_at[<<h, u>>]]_vars

\* C4 witness: a message is discarded one second before the cooldown ends,
\* while the same author has a message accepted in the other server at the
\* time of the one the cooldown counts from.
C4_Witness ==
    /\ ev.op = "on_message"
    /\ ev.outcome = "cooldown"
    /\ now - accepted_at[<<ev.guild, ev.user>>] = MESSAGE_COOLDOWN - 1
    /\ \E h \in GuildSet \ {ev.guild} :
          /\ <<h, ev.user>> \in DOMAIN accepted_at
          /\ accepted_at[<<h, ev.user>>] = accepted_at[<<ev.guild, ev.user>>]

\* Every record but those of the members of us in guild g is as it was
OthersUnchangedBut(before, after, g, us) ==
    \A p \in (GuildSet \X Users) \ ({g} \X us) :
        /\ HasRecord(after, p[1], p[2]) <=> HasRecord(before, p[1], p[2])
        /\ HasRecord(before, p[1], p[2]) => Rec(after, p[1], p[2]) = Rec(before, p[1], p[2])

\* The step is a step of on_raw_reaction_add
IsReaction == ev'.op = "on_raw_reaction_add"

\* C5: a reaction of non-bot member A to a message of B adds, from the ledger
\* the handler loaded to the ledger it saves, exactly XP_PER_REACTION to A's
\* xp and 1 to A's reactions; B's xp grows by exactly XP_PER_REACTION if and
\* only if B is no bot and B # A, and B's reactions stay as they were; a
\* self-reaction grants XP_PER_REACTION once, a reaction to a bot's message
\* creates no record for the bot, and a reaction added by a bot changes
\* nothing.
C5_ReactionAward ==
    [][IsReaction =>
          /\ ev'.user \in Bots => ev'.outcome = "bot" /\ ledger' = ledger
          /\ ev'.outcome = "saved" =>
                LET g == ev'.guild
                    A == ev'.user
                    B == ev'.author
                    before == ev'.loaded
                IN  /\ A \notin Bots
                    /\ HasRecord(ledger', g, A)
                    /\ XpIn(ledger', g, A) = XpIn(before, g, A) + XP_PER_REACTION
                    /\ ReactionsIn(ledger', g, A) = ReactionsIn(before, g, A) + 1
                    /\ B # A =>
                          /\ ReactionsIn(ledger', g, B) = ReactionsIn(before, g, B)
                          /\ XpIn(ledger', g, B) - XpIn(before, g, B)
                                \in {0, XP_PER_REACTION}
                    /\ (B \notin Bots /\ B # A)
                          <=> (/\ HasRecord(ledger', g, B)
                               /\ B # A
                               /\ XpIn(ledger', g, B) = XpIn(before, g, B) + XP_PER_REACTION)
                    /\ B \in Bots => ~HasRecord(ledger', g, B)
                    /\ OthersUnchangedBut(before, ledger', g, {A, B})]_vars

\* C5 witness: a reaction to the message of another member has been handled
\* to the end, the handler having waited for the level-up message of the one
\* while the other was still to be awarded, and both have their award.
C5_Witness ==
    /\ ev.op = "on_raw_reaction_add"
    /\ ev.outcome = "saved"
    /\ ev.author # ev.user
    /\ ev.levelups # {}
    /\ XpIn(ledger, ev.guild, ev.user) = XpIn(ev.loaded, ev.guild, ev.user) + XP_PER_REACTION
    /\ XpIn(ledger, ev.guild, ev.author) = XpIn(ev.loaded, ev.guild, ev.author) + XP_PER_REACTION
    /\ ReactionsIn(ledger, ev.guild, ev.author) = ReactionsIn(ev.loaded, ev.guild, ev.author)

\* The step ends a run of check_voice_xp: save_data has been called
IsTickEnd == ev'.op = "check_voice_xp" /\ ev'.outcome = "saved"

\* An occupant the tick counts: no bot, not muted, with a presence entry
Counted(g, m) ==
    /\ m.id \notin Bots
    /\ ~m.self_mute /\ ~m.mute
    /\ UserKey(g, m.id) \in DOMAIN voice_join_times

\* How often the run has credited member m of guild g
Credits(credited, g, m) ==
    Cardinality({i \in 1..Len(credited) : credited[i][1] = g /\ credited[i][3] = m})

\* From before to after, member m of guild g has one tick's award with p as
\* the partner, and nothing else
TickAward(before, after, g, m, p) ==
    /\ HasRecord(after, g, m)
    /\ XpIn(after, g, m) = XpIn(before, g, m) + XP_PER_MINUTE_VC
    /\ VcSecondsIn(after, g, m) = VcSecondsIn(before, g, m) + 60
    /\ ToString(p) \in DOMAIN PartnersIn(after, g, m)
    /\ PartnerSecondsIn(after, g, m, p) = PartnerSecondsIn(before, g, m, p) + 60
    /\ \A q \in Users \ {p} :
          PartnerSecondsIn(after, g, m, q) = PartnerSecondsIn(before, g, m, q)
    /\ MessagesIn(after, g, m) = MessagesIn(before, g, m)
    /\ ReactionsIn(after, g, m) = ReactionsIn(before, g, m)
    /\ LongestIn(after, g, m) = LongestIn(before, g, m)

\* A run of check_voice_xp that was not suspended, against the voice state
\* it ran in
TickInOneStep ==
    \A g \in GuildSet : \A c \in ChannelSet(g) :
        LET occ == ChannelMembers(g, c) IN
        /\ Len(occ) = 1 =>
              /\ HasRecord(ledger', g, occ[1].id) <=> HasRecord(ledger, g, occ[1].id)
              /\ Lookup(ledger', g, occ[1].id) = Lookup(ledger, g, occ[1].id)
        /\ (Len(occ) = 2 /\ Counted(g, occ[1]) /\ Counted(g, occ[2])) =>
              /\ TickAward(ledger, ledger', g, occ[1].id, occ[2].id)
              /\ TickAward(ledger, ledger', g, occ[2].id, occ[1].id)

\* Any run of check_voice_xp, suspended or not, against what it found in the
\* channels when it entered them
TickAsVisited(before, visits, credited) ==
    /\ \A i \in 1..Len(visits) :
          LET v == visits[i]
              occ == v.occupants
          IN  /\ Len(occ) <= 1 =>
                    \A j \in 1..Len(credited) :
                        ~(credited[j][1] = v.guild /\ credited[j][2] = v.channel)
              /\ (/\ Len(occ) = 2
                  /\ \A k \in 1..2 :
                        /\ occ[k].id \notin Bots /\ ~occ[k].self_mute /\ ~occ[k].mute
                        /\ Credits(credited, v.guild, occ[k].id) = 1
                        /\ \E j \in 1..Len(credited) :
                              credited[j] = <<v.guild, v.channel, occ[k].id>>) =>
                    /\ TickAward(before, ledger', v.guild, occ[1].id, occ[2].id)
                    /\ TickAward(before, ledger', v.guild, occ[2].id, occ[1].id)
    /\ (\A i \in 1..Len(visits) : Len(visits[i].occupants) <= 1) => ledger' = before

\* C6: on a voice tick a channel with a single occupant changes no record; a
\* channel with exactly two occupants, no bots, not muted, both with a
\* presence entry, gives each of the two exactly XP_PER_MINUTE_VC xp, 60
\* vc_seconds and 60 seconds in its vc_partners entry for the other, the
\* entry being created when absent.
C6_VoiceTick ==
    [][IsTickEnd =>
          /\ tick.pc = "idle" => TickInOneStep
          /\ TickAsVisited(ev'.loaded, ev'.visits, ev'.credited)]_vars

\* C6 witness: a tick has found two counted members together in a channel,
\* has credited both and has created the partner entry of one of the two.
C6_Witness ==
    /\ ev.op = "check_voice_xp"
    /\ ev.outcome = "saved"
    /\ \E i \in 1..Len(ev.visits) :
          /\ Len(ev.visits[i].occupants) = 2
          /\ Len(ev.credited) = 2
          /\ \E k \in 1..2 :
                LET m == ev.visits[i].occupants[k].id
                    p == ev.visits[i].occupants[3 - k].id
                    g == ev.visits[i].guild
                IN  /\ PartnerSecondsIn(ev.loaded, g, m, p) = 0
                    /\ PartnerSecondsIn(ledger, g, m, p) = 60

\* A step in which a voice session of ev'.duration seconds ends does what
\* lines 310-317 say to the persisted ledger
SessionEndStep ==
    (ev'.op = "on_voice_state_update" /\ ev'.outcome = "left") =>
        LET g == ev'.guild
            u == ev'.user
            d == ev'.duration
        IN  IF d > LongestIn(ledger, g, u)
            THEN /\ LongestIn(ledger', g, u) = d
                 /\ Rec(ledger', g, u).longest_session_date # None
                 /\ Rec(ledger', g, u).xp = Lookup(ledger, g, u).xp
                 /\ Rec(ledger', g, u).level = Lookup(ledger, g, u).level
                 /\ Rec(ledger', g, u).messages = Lookup(ledger, g, u).messages
                 /\ Rec(ledger', g, u).reactions = Lookup(ledger, g, u).reactions
                 /\ Rec(ledger', g, u).vc_seconds = Lookup(ledger, g, u).vc_seconds
                 /\ Rec(ledger', g, u).vc_partners = Lookup(ledger, g, u).vc_partners
                 /\ OthersUnchanged(ledger, ledger', g, u)
            ELSE ledger' = ledger

\* The stored longest_session of every member is the longest of the member's
\* sessions that ended since the record was last reset
LongestIsMax ==
    \A g \in GuildSet, u \in Users :
        LongestIn(ledger, g, u) = Get(session_max, UserKey(g, u), 0)

\* The step part of C7 alone
SessionEndSteps == [][SessionEndStep]_vars

\* C7: when a voice session of d seconds ends, longest_session becomes d and
\* longest_session_date non-null if d > longest_session, and the persisted
\* ledger is unchanged otherwise; xp, level, messages, reactions, vc_seconds
\* and vc_partners are unchanged in both cases; hence longest_session is the
\* maximum duration over the member's sessions completed since the record
\* was last reset.
C7_LongestSession == [][SessionEndStep]_vars /\ []LongestIsMax

\* The counters of the zero-state record of lines 92-102
IsZeroState(r) ==
    /\ r.xp = 0 /\ r.level = 1
    /\ r.messages = 0 /\ r.reactions = 0
    /\ r.vc_seconds = 0 /\ r.vc_partners = EmptyDict
    /\ r.longest_session = 0 /\ r.longest_session_date = None

\* What a run of reset_xp does to the persisted ledger
ResetStep ==
    ev'.op = "reset_xp" =>
        IF HasRecord(ledger, ev'.guild, ev'.user)
        THEN /\ ev'.outcome = "reset"
             /\ ~HasRecord(ledger', ev'.guild, ev'.user)
             /\ IsZeroState(Lookup(ledger', ev'.guild, ev'.user))
        ELSE /\ ev'.outcome = "no_data"
             /\ ~ev'.saved
             /\ ledger' = ledger

\* After a reset, as long as no new event has been delivered, a lookup of the
\* member finds the zero state
ZeroUntilNextEvent ==
    (ev.op = "reset_xp" /\ ev.outcome = "reset" /\ budget' = budget) =>
        IsZeroState(Lookup(ledger', ev.guild, ev.user))

\* The step part of C8 alone
ResetSteps == [][ResetStep]_vars

\* C8: reset_xp on an existing record removes the record from the persisted
\* ledger, so that the next lookup or event for the member starts from the
\* zero-state record; when there is no record reset_xp reports that there is
\* nothing to reset and does not write the ledger.
C8_Reset == [][ResetStep /\ ZeroUntilNextEvent]_vars

\* The members of guild g with a record in data whose xp is above / at least x
Above(data, g, x) == {v \in Users : HasRecord(data, g, v) /\ XpIn(data, g, v) > x}
AtLeast(data, g, x) == {v \in Users : HasRecord(data, g, v) /\ XpIn(data, g, v) >= x}

\* p is a 1-based position of member u among the records of guild g sorted
\* by xp, highest first
IsPositionOf(data, g, u, p) ==
    /\ p > Cardinality(Above(data, g, XpIn(data, g, u)))
    /\ p <= Cardinality(AtLeast(data, g, XpIn(data, g, u)))

\* The part of C9 about members with a record
RankOfStored ==
    [][ev'.op = "rank" /\ HasRecord(ledger, ev'.guild, ev'.user) =>
           IsPositionOf(ledger, ev'.guild, ev'.user, ev'.rank)]_vars

\* C9: rank(server, user) reports the 1-based position of the member among
\* the server's records sorted by xp descending, and position 0 when the
\* member has no record in the ledger.
C9_Rank ==
    [][ev'.op = "rank" =>
          IF HasRecord(ledger, ev'.guild, ev'.user)
          THEN IsPositionOf(ledger, ev'.guild, ev'.user, ev'.rank)
          ELSE ev'.rank = 0]_vars

\* The step is a run of leaderboard with a category it does not know
IsUnknownCategory ==
    /\ ev'.op = "leaderboard"
    /\ Lower(ev'.category) \notin DOMAIN valid_categories

\* The file holds a record of guild g
HasRecords(data, g) == \E u \in Users : HasRecord(data, g, u)

\* C10 as stated: leaderboard with an unrecognized category always answers
\* with the invalid-category message, for every ledger state including a
\* server with no records, and never mutates the ledger.
C10_InvalidCategoryAlways ==
    [][IsUnknownCategory => ev'.outcome = "invalid_category" /\ ledger' = ledger]_vars

\* C10 as the code has it: leaderboard with an unrecognized category answers
\* with the invalid-category message when the server has a record, and with
\* the no-data message when it has none; it never mutates the ledger.
C10_InvalidCategory ==
    [][IsUnknownCategory =>
          /\ ev'.outcome = IF HasRecords(ledger, ev'.guild)
                           THEN "invalid_category" ELSE "no_data"
          /\ ev'.entries = <<>>
          /\ ledger' = ledger]_vars

\* C10 witness: leaderboard has answered an unrecognized category with the
\* invalid-category message on a server with records.
C10_Witness ==
    /\ ev.op = "leaderboard"
    /\ Lower(ev.category) \notin DOMAIN valid_categories
    /\ ev.outcome = "invalid_category"
    /\ HasRecords(ledger, ev.guild)

\* The field a category of PageCategories sorts by
CategoryField(category) == IF category = "xp" THEN "xp" ELSE "longest_session"

\* The value item i of items has in the field, 0 when it has no such field
ValueAt(items, i, field) ==
    IF field \in DOMAIN items[i][2] THEN items[i][2][field] ELSE 0

\* position is a place item i can have among the items sorted by the field
\* in non-increasing order
IsPlaceOf(items, i, field, position) ==
    /\ position > Cardinality({j \in 1..Len(items) :
                                  ValueAt(items, j, field) > ValueAt(items, i, field)})
    /\ position <= Cardinality({j \in 1..Len(items) :
                                   ValueAt(items, j, field) >= ValueAt(items, i, field)})

\* C11: for a server with n >= 1 records and a valid category, leaderboard
\* clamps any page (0, negative and too large included) into
\* [1, ceil(n / 10)] and shows exactly the entries at the positions
\* (page - 1) * 10 + 1 .. min(page * 10, n) of the records sorted in
\* non-increasing order of the field, a missing field counting as 0, each
\* numbered with its position among all records.
C11_LeaderboardPage ==
    [][ev'.op = "leaderboard_page" =>
          LET n == ev'.n
              items == SampleItems(n, ev'.pattern)
              field == CategoryField(ev'.category)
              pages == ev'.pages
              shown == IF ev'.page < 1 THEN 1
                       ELSE IF ev'.page > pages THEN pages ELSE ev'.page
              first == (shown - 1) * 10 + 1
              last == IF shown * 10 < n THEN shown * 10 ELSE n
              entries == ev'.entries
          IN  /\ pages * 10 >= n /\ (pages - 1) * 10 < n
              /\ ev'.shown = shown
              /\ Len(entries) = last - first + 1
              /\ \A k \in 1..Len(entries) :
                    /\ entries[k][1] = first + k - 1
                    /\ \E i \in 1..n :
                          /\ items[i][1] = entries[k][2]
                          /\ ValueAt(items, i, field) = entries[k][3]
                          /\ IsPlaceOf(items, i, field, entries[k][1])
                    /\ \A l \in 1..Len(entries) : l # k => entries[l][2] # entries[k][2]]_vars

\* C11 witness: a page beyond the last was asked for on a server with more
\* than two pages of records, sorted by a field some records do not have,
\* and the last page, which is not full, is shown.
C11_Witness ==
    /\ ev.op = "leaderboard_page"
    /\ ev.category = "session"
    /\ ev.page > ev.pages
    /\ ev.shown = ev.pages
    /\ ev.pages > 2
    /\ Len(ev.entries) < 10
    /\ ev.entries[Len(ev.entries)][1] = ev.n

C13_LevelMonotone ==
    [][ev'.op = "calculate_level" =>
          /\ ev'.level >= 1
          /\ (ev.op = "calculate_level" /\ ev.xp <= ev'.xp) => ev.level <= ev'.level
          /\ (ev.op = "calculate_level" /\ ev.xp >= ev'.xp) => ev.level >= ev'.level]_vars

\* C13 witness: calculate_level was applied to an xp of level 3 or more.
C13_Witness ==
    /\ ev.op = "calculate_level"
    /\ ev.xp > xp_for_next_level(2)
    /\ ev.level >= 3

\* The keys bot accounts would have in the ledger
BotIds == {ToString(b) : b \in Bots}

\* C14: in every reachable persisted ledger no record is keyed by a bot
\* account, and no record's vc_partners has an entry keyed by a bot account
\* or by the record's own user id.
C14_NoBots ==
    \A gid \in DOMAIN ledger : \A uid \in DOMAIN ledger[gid] :
        /\ uid \notin BotIds
        /\ \A pid \in DOMAIN ledger[gid][uid].vc_partners :
              pid \notin BotIds /\ pid # uid

\* C14 witness: a reaction to a bot's message has been handled and saved,
\* the member who reacted having a record.
C14_Witness ==
    /\ ev.op = "on_raw_reaction_add"
    /\ ev.outcome = "saved"
    /\ ev.author \in Bots
    /\ HasRecord(ledger, ev.guild, ev.user)

\* The step is the save_data of a handler that loaded the ledger in an
\* earlier step or in this one
IsSaveOfHandler ==
    /\ ev'.op \in {"on_raw_reaction_add", "check_voice_xp"}
    /\ ev'.outcome = "saved"

\* C15: handlers interleave only at their awaits, and every handler's
\* load_data -> mutate -> save_data cycle is serialized with the others: when
\* a handler saves, the file still holds what the handler loaded, so that no
\* save overwrites a change another handler persisted after the load.
C15_Serialized == [][IsSaveOfHandler => ledger = ev'.loaded]_vars

\* The channel member u of guild g is in, in the voice states v
ChannelIn(v, g, u) ==
    IF \E i \in 1..Len(v[g]) : v[g][i].id = u
    THEN v[g][CHOOSE i \in 1..Len(v[g]) : v[g][i].id = u].channel
    ELSE NoChannel

\* The keys of the members, bots excepted, that are in a voice channel
InVoiceKeys(v) ==
    {UserKey(p[1], p[2]) : p \in {q \in GuildSet \X (Users \ Bots) :
                                     ChannelIn(v, q[1], q[2]) # NoChannel}}

PresenceMatches ==
    /\ DOMAIN voice_join_times = DOMAIN voice_session_starts
    /\ ready => DOMAIN voice_join_times = InVoiceKeys(voice)

\* What a change of member u's channel does to the presence maps
PresenceStep ==
    \A g \in GuildSet, u \in Users \ Bots :
        LET k == UserKey(g, u)
            before == ChannelIn(voice, g, u)
            after == ChannelIn(voice', g, u)
        IN  ready =>
            /\ (before = NoChannel /\ after # NoChannel) =>
                  /\ k \in DOMAIN voice_join_times' /\ voice_join_times'[k] = now
                  /\ k \in DOMAIN voice_session_starts' /\ voice_session_starts'[k] = now
            /\ (before # NoChannel /\ after = NoChannel) =>
                  /\ k \notin DOMAIN voice_join_times'
                  /\ k \notin DOMAIN voice_session_starts'
            /\ (before # NoChannel /\ after # NoChannel) =>
                  /\ k \in DOMAIN voice_session_starts'
                  /\ voice_session_starts'[k] = voice_session_starts[k]
                  /\ voice_join_times'[k] = voice_join_times[k]
                  /\ ~(/\ ev'.op = "on_voice_state_update"
                        /\ ev'.outcome \in {"joined", "left"}
                        /\ ev'.guild = g /\ ev'.user = u)

\* C16: after startup a <<server, user>> key is in the presence maps if and
\* only if the user is a non-bot member in some voice channel of the server;
\* the two maps always have the same keys; the entry is made when the member
\* goes from no channel to a channel, removed when the member goes from a
\* channel to none, and a move from one channel to another leaves the entry
\* and its session start as they were.
C16_Presence == []PresenceMatches /\ [][PresenceStep]_vars

\* C16 witness: a member whose session started earlier has moved from one
\* channel to another and the session start is still the earlier time.
C16_Witness ==
    /\ ev.op = "on_voice_state_update"
    /\ ev.outcome = "other"
    /\ ev.from # ev.to
    /\ UserKey(ev.guild, ev.user) \in DOMAIN voice_session_starts
    /\ voice_session_starts[UserKey(ev.guild, ev.user)] < now

\* The occupants of a channel that are no bots / no bots and not muted
NonBotOccupants(occ) == {i \in 1..Len(occ) : occ[i].id \notin Bots}
UnmutedOccupants(occ) ==
    {i \in 1..Len(occ) : occ[i].id \notin Bots /\ ~occ[i].self_mute /\ ~occ[i].mute}

\* The record of member u of guild g is the same in before and after
SameRecord(before, after, g, u) ==
    /\ HasRecord(after, g, u) <=> HasRecord(before, g, u)
    /\ Lookup(after, g, u) = Lookup(before, g, u)

\* A run of check_voice_xp that was not suspended awards every counted
\* occupant of every channel with more than one occupant that is no bot and,
\* unless muted_count, not muted, and leaves the records of muted occupants
\* alone
TickAwards(muted_count) ==
    \A g \in GuildSet : \A c \in ChannelSet(g) :
        LET occ == ChannelMembers(g, c) IN
        \A i \in 1..Len(occ) :
            /\ (Counted(g, occ[i]) /\ Cardinality(IF muted_count THEN NonBotOccupants(occ)
                                          ELSE UnmutedOccupants(occ)) > 1) =>
                  /\ XpIn(ledger', g, occ[i].id) = XpIn(ledger, g, occ[i].id) + XP_PER_MINUTE_VC
                  /\ VcSecondsIn(ledger', g, occ[i].id) = VcSecondsIn(ledger, g, occ[i].id) + 60
            /\ (occ[i].self_mute \/ occ[i].mute) => SameRecord(ledger, ledger', g, occ[i].id)

\* Any run of check_voice_xp: every member has XP_PER_MINUTE_VC xp and 60
\* vc_seconds per credit, and a credit goes to an occupant that was neither
\* bot nor muted when the run entered a channel with more than one such
TickCredits(before, visits, credited) ==
    /\ \A g \in GuildSet, u \in Users :
          /\ XpIn(ledger', g, u)
                = XpIn(before, g, u) + XP_PER_MINUTE_VC * Credits(credited, g, u)
          /\ VcSecondsIn(ledger', g, u)
                = VcSecondsIn(before, g, u) + 60 * Credits(credited, g, u)
    /\ \A j \in 1..Len(credited) :
          \E i \in 1..Len(visits) :
              LET occ == visits[i].occupants IN
              /\ visits[i].guild = credited[j][1]
              /\ visits[i].channel = credited[j][2]
              /\ Cardinality(UnmutedOccupants(occ)) > 1
              /\ \E k \in UnmutedOccupants(occ) : occ[k].id = credited[j][3]

\* C17 as stated: on a voice tick every occupant that is no bot, not muted
\* and has a presence entry receives XP_PER_MINUTE_VC and 60 vc_seconds
\* whenever its channel has more than one non-bot occupant, muted ones
\* counting, and a muted occupant receives nothing.
C17_MutedCountForThreshold ==
    [][(IsTickEnd /\ tick.pc = "idle") => TickAwards(TRUE)]_vars

\* C17 as the code has it: the occupant receives the award whenever its
\* channel has more than one occupant that is no bot and not muted; muted
\* occupants do not count for that and receive nothing, and with one such
\* occupant or none nobody in the channel receives anything.
C17_VoiceAward ==
    [][IsTickEnd =>
          /\ tick.pc = "idle" =>
                /\ TickAwards(FALSE)
                /\ \A g \in GuildSet : \A c \in ChannelSet(g) :
                      LET occ == ChannelMembers(g, c) IN
                      Cardinality(UnmutedOccupants(occ)) <= 1 =>
                          \A i \in 1..Len(occ) : SameRecord(ledger, ledger', g, occ[i].id)
          /\ TickCredits(ev'.loaded, ev'.visits, ev'.credited)]_vars

\* C17 witness: a tick has found a member with a presence entry in a channel
\* with a muted member, and has awarded nothing.
C17_Witness ==
    /\ ev.op = "check_voice_xp"
    /\ ev.outcome = "saved"
    /\ ev.credited = <<>>
    /\ ledger = ev.loaded
    /\ \E i \in 1..Len(ev.visits) :
          LET occ == ev.visits[i].occupants IN
          /\ Cardinality(NonBotOccupants(occ)) = 2
          /\ Cardinality(UnmutedOccupants(occ)) = 1
          /\ \A k \in 1..Len(occ) :
                UserKey(ev.visits[i].guild, occ[k].id) \in DOMAIN voice_join_times

\* The seconds the run that ends with this step has added to a's entry for b
PartnerGain(before, g, a, b) ==
    PartnerSecondsIn(ledger', g, a, b) - PartnerSecondsIn(before, g, a, b)

\* The run that ends with this step has credited a for b exactly if it has
\* credited b for a
TickSymmetric(before) ==
    \A g \in GuildSet, a \in Users, b \in Users :
        a # b => (PartnerGain(before, g, a, b) >= 60 <=> PartnerGain(before, g, b, a) >= 60)

\* A member without a presence entry has no award from the run and is in
\* nobody's partner credit
PresenceGate(before) ==
    \A g \in GuildSet, u \in Users :
        UserKey(g, u) \notin DOMAIN voice_join_times =>
            /\ XpIn(ledger', g, u) = XpIn(before, g, u)
            /\ VcSecondsIn(ledger', g, u) = VcSecondsIn(before, g, u)
            /\ \A a \in Users : PartnerGain(before, g, a, u) = 0

\* C18 for the runs of check_voice_xp that are not suspended
PartnerCreditUnsuspended ==
    [][(IsTickEnd /\ tick.pc = "idle") => TickSymmetric(ledger) /\ PresenceGate(ledger)]_vars

\* C18: partner credit on a tick is symmetric and gated by presence: in one
\* tick A's vc_partners[B].seconds gains 60 if and only if B's
\* vc_partners[A].seconds gains 60 in the same tick, and a member without a
\* presence entry neither receives the tick's award nor is credited as a
\* partner in another record.
C18_PartnerSymmetry ==
    [][IsTickEnd =>
          /\ TickSymmetric(ev'.loaded)
          /\ tick.pc = "idle" => PresenceGate(ledger)]_vars

\* The step is a run of one of the query commands
IsQuery == ev'.op \in {"rank", "vcpartners", "leaderboard"}

\* C19: rank, vcpartners and leaderboard are read-only: for every ledger and
\* every argument, a member without a record included, the persisted
\* ledger, the cooldown map and the presence maps are after the call what
\* they were before it.
C19_QueriesReadOnly ==
    [][IsQuery =>
          /\ ledger' = ledger
          /\ message_cooldowns' = message_cooldowns
          /\ voice_join_times' = voice_join_times
          /\ voice_session_starts' = voice_session_starts]_vars

\* C19 witness: rank has reported the zero record of a member on a server
\* that has records of others, and the member still has no record.
C19_Witness ==
    /\ ev.op = "rank"
    /\ IsZeroState(ev.stats)
    /\ HasRecords(ledger, ev.guild)
    /\ ~HasRecord(ledger, ev.guild, ev.user)

\* The announcement due to member u of guild g when the level of the record
\* has risen from before to after: the new level
DueLevelUps(before, after, g, us) ==
    {<<g, u, Rec(after, g, u).level>> :
        u \in {v \in us : /\ HasRecord(after, g, v)
                          /\ Rec(after, g, v).level > Lookup(before, g, v).level}}

\* on_message and on_raw_reaction_add announce a level exactly when their
\* grant has raised it, and announce the new level
AnnouncedWhenRaised ==
    /\ (ev'.op = "on_message" /\ ev'.outcome = "accepted") =>
          ev'.levelups = DueLevelUps(ledger, ledger', ev'.guild, {ev'.user})
    /\ (ev'.op = "on_message" /\ ev'.outcome # "accepted") => ev'.levelups = {}
    /\ (ev'.op = "on_raw_reaction_add" /\ ev'.outcome = "saved") =>
          ev'.levelups = DueLevelUps(ev'.loaded, ledger', ev'.guild, {ev'.user, ev'.author})

\* The levels announced for a member since the member's last reset rise
StrictlyIncreasing ==
    \A k \in DOMAIN announced :
        \A i, j \in 1..Len(announced[k]) : i < j => announced[k][i] < announced[k][j]

\* The first part of C20 alone
LevelUpsWhenRaised == [][AnnouncedWhenRaised]_vars

\* C20: a level-up message is sent exactly when an XP grant raises the
\* member's level and announces the new level; over any execution, handlers
\* interleaving at their awaits included, the levels announced for one
\* <<server, user>> between two resets of the user are strictly increasing,
\* so that no level is announced twice.
C20_LevelUps == [][AnnouncedWhenRaised]_vars /\ []StrictlyIncreasing

Excess(data, g, u) ==
    XpIn(data, g, u) - XP_PER_MESSAGE * MessagesIn(data, g, u)
                     - XP_PER_REACTION * ReactionsIn(data, g, u)
                     - XP_PER_MINUTE_VC * (VcSecondsIn(data, g, u) \div 60)

\* xp >= XP_PER_MESSAGE * messages + XP_PER_REACTION * reactions
\*       + XP_PER_MINUTE_VC * (vc_seconds / 60) in every record
AccountingBound == \A p \in Stored(ledger) : Excess(ledger, p[1], p[2]) >= 0

\* The step is the save of a reaction of another member to a message of
\* non-bot member u of guild g
IsReceivedBy(g, u) ==
    /\ ev'.op = "on_raw_reaction_add"
    /\ ev'.outcome = "saved"
    /\ ev'.guild = g /\ ev'.author = u
    /\ ev'.user # u /\ u \notin Bots

ReceivedGain(g, u) == IF IsReceivedBy(g, u) THEN XP_PER_REACTION ELSE 0

\* The excess of a record counts the reactions received since the record was
\* created: it grows by XP_PER_REACTION with every reaction received from
\* another member, starts again with a reset, and changes in no other step.
ExcessCounts ==
    \A g \in GuildSet, u \in Users :
        IF IsResetOf(g, u)
        THEN Excess(ledger', g, u) = 0
        ELSE Excess(ledger', g, u) = Excess(ledger, g, u) + ReceivedGain(g, u)

\* The same, from what a handler loaded to what it saves
ExcessCountsOfHandler ==
    \A g \in GuildSet, u \in Users :
        IF IsResetOf(g, u)
        THEN Excess(ledger', g, u) = 0
        ELSE Excess(ledger', g, u) =
                 Excess(IF IsSaveOfHandler THEN ev'.loaded ELSE ledger, g, u)
                 + ReceivedGain(g, u)

\* The bound of C22 alone
AccountingBoundAlways == []AccountingBound

\* What each handler adds to the excess, from its load to its save
ExcessPerHandler == [][ExcessCountsOfHandler]_vars

\* C22: in every reachable persisted ledger each record has
\* xp >= XP_PER_MESSAGE * messages + XP_PER_REACTION * reactions
\* + XP_PER_MINUTE_VC * (vc_seconds / 60), and the excess is exactly
\* XP_PER_REACTION times the number of reactions the user received from other
\* users since the record was created.
C22_Accounting == []AccountingBound /\ [][ExcessCounts]_vars

\* What a run of reset_xp leaves alone: every record but the member's own,
\* the cooldown times, the presence maps, the voice states and the handlers
\* in flight
ResetFrame ==
    ev'.op = "reset_xp" =>
        /\ OthersUnchanged(ledger, ledger', ev'.guild, ev'.user)
        /\ \A p \in Users \ {ev'.user} :
              PartnerSecondsIn(ledger', ev'.guild, p, ev'.user)
                  = PartnerSecondsIn(ledger, ev'.guild, p, ev'.user)
        /\ ev'.outcome = "no_data" => ledger' = ledger
        /\ message_cooldowns' = message_cooldowns
        /\ voice_join_times' = voice_join_times
        /\ voice_session_starts' = voice_session_starts
        /\ voice' = voice
        /\ react' = react /\ tick' = tick /\ ready' = ready

\* A message of the reset member that follows the reset within
\* message_cooldown of the member's last accepted message is discarded
DiscardedAfterReset ==
    (/\ ev.op = "reset_xp"
     /\ ev.outcome = "reset"
     /\ IsMessageOf(ev.guild, ev.user)
     /\ <<ev.guild, ev.user>> \in DOMAIN accepted_at
     /\ now' - accepted_at[<<ev.guild, ev.user>>] < MESSAGE_COOLDOWN)
    => /\ ev'.outcome = "cooldown"
       /\ ledger' = ledger
       /\ message_cooldowns' = message_cooldowns

\* A session of the reset member that ends after the reset is measured from
\* the start it had before the reset
SessionKeptAfterReset ==
    (/\ ev.op = "reset_xp"
     /\ ev.outcome = "reset"
     /\ ev'.op = "on_voice_state_update"
     /\ ev'.outcome \in {"left", "untracked"}
     /\ ev'.guild = ev.guild /\ ev'.user = ev.user
     /\ UserKey(ev.guild, ev.user) \in DOMAIN voice_session_starts)
    => /\ ev'.outcome = "left"
       /\ ev'.duration = now' - voice_session_starts[UserKey(ev.guild, ev.user)]

\* C23: reset_xp changes nothing but the member's own record: every other
\* record is as it was, the entries of other members' vc_partners for the
\* reset member included, and the member's cooldown time and presence entry
\* are as they were, so that a message right after the reset and within
\* message_cooldown of the last accepted one is still discarded and a voice
\* session in progress keeps the start it had.
C23_ResetFrame == [][ResetFrame /\ DiscardedAfterReset /\ SessionKeptAfterReset]_vars

\* C23 witness: a record has just been reset while its member is inside the
\* cooldown of an accepted message and in a voice session, and another
\* member's vc_partners has an entry for the reset member.
C23_Witness ==
    /\ ev.op = "reset_xp"
    /\ ev.outcome = "reset"
    /\ UserKey(ev.guild, ev.user) \in DOMAIN message_cooldowns
    /\ now - message_cooldowns[UserKey(ev.guild, ev.user)] < MESSAGE_COOLDOWN
    /\ UserKey(ev.guild, ev.user) \in DOMAIN voice_session_starts
    /\ ~HasRecord(ledger, ev.guild, ev.user)
    /\ \E p \in Users \ {ev.user} :
          PartnerSecondsIn(ledger, ev.guild, p, ev.user) > 0

====
